---- MODULE Spec2Model ----
(***************************************************************************)
(* Speech synthesis cache, text normalizer, PCM decoder and shared audio   *)
(* device of src/services/geminiService.ts, run on a single-threaded       *)
(* event loop (tasks and a FIFO microtask queue).                          *)
(*                                                                         *)
(* Strings are sequences of UTF-16 code units (numbers).  A promise is a   *)
(* record with a state and an ordered list of reactions; settling it       *)
(* queues one microtask per reaction, in registration order.               *)
(***************************************************************************)
EXTENDS Integers, Sequences, FiniteSets, TLC

VARIABLES
  pairs,               \* the (voice, text) arguments callers may pass in this run
  responses,           \* the ways the backend may answer in this run
  modes,               \* what callers do with the result in this run
  budget,              \* generateSpeech calls still allowed in this run
  audioCache,          \* Map<string, Promise<AudioBuffer>>: key -> fetch id
  sharedAudioContext,  \* 0 (null) or the id of the AudioContext
  devices,             \* number of AudioContext objects constructed so far
  ctxState,            \* "none" | "suspended" | "running"
  ctxLog,              \* every value getAudioContext has returned
  ctxRate,             \* the sampleRate the AudioContext was constructed with
  fetches,             \* the fetchPromise objects, in creation order
  requests,            \* backend invocations (ai.models.generateContent, TTS)
  calls,               \* generateSpeech invocations; found and sameTask record
                       \* what the call met: the state of the entry it was
                       \* handed ("miss" if none) and whether an earlier call
                       \* of the same task had already run
  plays,               \* playAudioBuffer invocations
  mq,                  \* microtask queue
  inTask,              \* TRUE while the synchronous code of a task is running
  cont,                \* the call whose continuation, having observed a failure,
                       \* is still running synchronous code (0: none)
  instance,            \* the mounted ResultView (0: none); a new number per mount
  playingAudio,        \* the playingAudio state of the mounted ResultView: 0
                       \* (null) or the handlePlayAudio invocation that set it
  rendered,            \* the playingAudio value of the last render, which the
                       \* click handler closes over and the buttons show
  notebook,            \* the notebook state of App: NotebookItem[], newest first
  localStorage,        \* the value stored under 'tenma_notebook' (NoItem: none)
  loaded,              \* TRUE once the load effect of App has run
  now,                 \* the last value Date.now() returned
  saves                \* handleSaveToNotebook calls so far and what the last did

vars == <<pairs, responses, modes, budget, audioCache, sharedAudioContext, devices, ctxState,
          ctxLog, ctxRate, fetches, requests, calls, plays, mq, inTask, cont, instance, playingAudio, rendered,
          notebook, localStorage, loaded, now, saves>>

appVars == <<notebook, localStorage, loaded, now, saves>>
viewVars == <<instance, playingAudio, rendered>>

(***************************************************************************)
(* Bounds of the model.                                                    *)
(***************************************************************************)
MaxCalls == 3
MaxTokens == 3
MaxBytes == 4
MaxSaves == 3      \* handleSaveToNotebook calls in a run
MaxTime == 2       \* the last instant of the clock

(***************************************************************************)
(* Code units that occur in the source.                                    *)
(***************************************************************************)
Colon == 58
C_Ten == 22825
C_Kai == 28023
C_Yuu == 31056
C_Ki == 24076
H_sa == 12373
H_n == 12435
C_Sama == 27096
H_chi == 12385
H_ya == 12419
H_ku == 12367
H_a == 12354
H_ma == 12414
H_mi == 12415
H_yu == 12422
H_u == 12358
H_ki == 12365
AUDIO_SAMPLE_RATE == 24000
\* channelData[i] = dataInt16[i] / 32768.0
SampleScale == 32768

FullName == <<C_Ten, C_Kai, C_Yuu, C_Ki>>
Surname == <<C_Ten, C_Kai>>
San == <<H_sa, H_n>>
Honorifics == {San, <<C_Sama>>, <<H_chi, H_ya, H_n>>, <<H_ku, H_n>>}
AmamiYuuki == <<H_a, H_ma, H_mi, H_yu, H_u, H_ki>>
AmamiYuukiSan == AmamiYuuki \o San
Amami == <<H_a, H_ma, H_mi>>

Puck == <<80, 117, 99, 107>>
Kore == <<75, 111, 114, 101>>

(***************************************************************************)
(* String helpers (String.prototype.includes, RegExp test / replace).      *)
(***************************************************************************)
MatchAt(s, i, pat) ==
  /\ i >= 1
  /\ i + Len(pat) - 1 <= Len(s)
  /\ \A j \in 1..Len(pat) : s[i + j - 1] = pat[j]

Includes(s, pat) == \E i \in 1..Len(s) : MatchAt(s, i, pat)

\* /[぀-ヿ㐀-䶿一-鿿]/
IsJapaneseChar(c) ==
  \/ (c >= 12352 /\ c <= 12543)
  \/ (c >= 13312 /\ c <= 19903)
  \/ (c >= 19968 /\ c <= 40959)

hasJapaneseChars(text) == \E i \in 1..Len(text) : IsJapaneseChar(text[i])

\* /天海祐希(さん|様|ちゃん|くん)/.test(s)
HonorificTest(s) ==
  \E i \in 1..Len(s) :
    /\ MatchAt(s, i, FullName)
    /\ \E h \in Honorifics : MatchAt(s, i + Len(FullName), h)

\* s.replace(/天海祐希/g, rep), scanning from index i
RECURSIVE ReplaceFullName(_, _, _)
ReplaceFullName(s, i, rep) ==
  IF i > Len(s) THEN <<>>
  ELSE IF MatchAt(s, i, FullName)
       THEN rep \o ReplaceFullName(s, i + Len(FullName), rep)
       ELSE <<s[i]>> \o ReplaceFullName(s, i + 1, rep)

\* the lookahead of /天海(?!祐)/ at index i
SurnameLookahead(s, i) == ~ MatchAt(s, i, <<C_Yuu>>)

\* the replace without its g flag: only the first match is rewritten
ReplaceSurnameFirst(s, i) ==
  LET hits == {j \in i..Len(s) :
                 MatchAt(s, j, Surname) /\ SurnameLookahead(s, j + Len(Surname))}
  IN  IF hits = {} THEN SubSeq(s, i, Len(s))
      ELSE LET j == CHOOSE h \in hits : \A g \in hits : h <= g
           IN  SubSeq(s, i, j - 1) \o Amami
                 \o SubSeq(s, j + Len(Surname), Len(s))

\* s.replace(/天海(?!祐)/g, "あまみ"), scanning from index i
RECURSIVE ReplaceSurname(_, _)
ReplaceSurname(s, i) ==
  IF i > Len(s) THEN <<>>
  ELSE IF MatchAt(s, i, Surname) /\ SurnameLookahead(s, i + Len(Surname))
       THEN Amami \o ReplaceSurname(s, i + Len(Surname))
       ELSE <<s[i]>> \o ReplaceSurname(s, i + 1)

\* rule 1 with the honorific test dropped: "san" is always appended
FullNameFixBug(s) ==
  IF Includes(s, FullName) THEN ReplaceFullName(s, 1, AmamiYuukiSan) ELSE s

\* rule 1: the full name, with "san" added when the text has no honorific
FullNameFix(s) ==
  IF Includes(s, FullName)
  THEN IF ~ HonorificTest(s)
       THEN ReplaceFullName(s, 1, AmamiYuukiSan)
       ELSE ReplaceFullName(s, 1, AmamiYuuki)
  ELSE s

\* the gate dropped and "san" appended to the text instead of to the name
processedTextBug(text) ==
  IF HonorificTest(text)
  THEN ReplaceSurname(ReplaceFullName(text, 1, AmamiYuuki), 1)
  ELSE ReplaceSurname(ReplaceFullName(text, 1, AmamiYuuki), 1) \o San

\* the text sent to the speech engine for a displayed text
processedText(text) ==
  IF hasJapaneseChars(text)
  THEN ReplaceSurname(FullNameFix(text), 1)
  ELSE text

\* a key built from the text that is sent to the backend
cacheKeyNormalized(voiceName, text) ==
  voiceName \o <<Colon>> \o processedText(text)

\* `${voiceName}:${text}`
cacheKey(voiceName, text) == voiceName \o <<Colon>> \o text

(***************************************************************************)
(* PCM decoding.                                                           *)
(***************************************************************************)
\* decode(base64): the bytes of the binary string atob returned
decode(bin) == [i \in 1..Len(bin) |-> bin[i] % 256]

\* the two bytes of a sample read in the wrong order
Int16AtBigEndian(data, i) ==
  LET u == 256 * data[2 * i - 1] + data[2 * i]
  IN  IF u >= 32768 THEN u - 65536 ELSE u

\* element i (1-based) of new Int16Array(data.buffer, ...): little-endian
Int16At(data, i) ==
  LET u == data[2 * i - 1] + 256 * data[2 * i]
  IN  IF u >= 32768 THEN u - 65536 ELSE u

\* a decoder without the trimming of lines 45-47 that refuses an odd length
decodeAudioDataOddFails(data0) ==
  IF Len(data0) % 2 # 0 \/ Len(data0) = 0
  THEN [ok |-> FALSE, frames |-> <<>>, rate |-> 0, scale |-> 0]
  ELSE [ok |-> TRUE,
        frames |-> [i \in 1..(Len(data0) \div 2) |-> Int16At(data0, i)],
        rate |-> AUDIO_SAMPLE_RATE, scale |-> SampleScale]

\* a decoder whose buffer factory accepts a length of zero
decodeAudioDataZero(data0) ==
  [ok |-> TRUE,
   frames |-> [i \in 1..(Len(data0) \div 2) |-> Int16At(data0, i)],
   rate |-> AUDIO_SAMPLE_RATE, scale |-> SampleScale]

\* a decoder that creates its buffer at a hard-coded 44100 Hz
decodeAudioDataRate(data0) ==
  IF Len(data0) \div 2 = 0
  THEN [ok |-> FALSE, frames |-> <<>>, rate |-> 0, scale |-> 0]
  ELSE [ok |-> TRUE,
        frames |-> [i \in 1..(Len(data0) \div 2) |-> Int16At(data0, i)],
        rate |-> 44100, scale |-> SampleScale]

\* decodeAudioData: ok = FALSE when ctx.createBuffer throws (no frames).
\* A sample is kept as its numerator; its value is frames[i] / scale.
decodeAudioData(data0) ==
  LET data == IF Len(data0) % 2 # 0 THEN SubSeq(data0, 1, Len(data0) - 1)
              ELSE data0
      frameCount == Len(data) \div 2
  IN  IF frameCount = 0
      THEN [ok |-> FALSE, frames |-> <<>>, rate |-> 0, scale |-> 0]
      ELSE [ok |-> TRUE,
            frames |-> [i \in 1..frameCount |-> Int16At(data, i)],
            rate |-> AUDIO_SAMPLE_RATE, scale |-> SampleScale]

(***************************************************************************)
(* Inputs.                                                                 *)
(***************************************************************************)
\* one-character texts: the kana "to", the letter "x" and the ideographic
\* full stop, which lies outside the three ranges of the gate
K_to == <<12392>>
L_x == <<120>>
K_maru == <<12290>>
T_Name == FullName \o K_to \o Surname
T_Colon == L_x \o <<Colon>> \o L_x
V_Colon == Puck \o <<Colon>> \o L_x

\* voices of SUPPORTED_LANGUAGES, texts as the views pass them
AppPairs == {<<Puck, T_Name>>, <<Kore, T_Name>>}
\* two displayed texts that are sent to the backend as the same string
KeyPairs == {<<Kore, Surname>>, <<Kore, Amami>>}
\* any strings, as the exported signature (text: string, voiceName: string)
ApiPairs == {<<Puck, T_Colon>>, <<V_Colon, L_x>>}

Tokens == {FullName, Surname, <<C_Ten>>, <<C_Kai>>, <<C_Yuu>>, <<C_Ki>>, San,
           <<C_Sama>>, <<H_chi, H_ya, H_n>>, <<H_ku, H_n>>, K_to, L_x, K_maru}

RECURSIVE TextsOf(_)
TextsOf(n) ==
  IF n = 0 THEN {<<>>}
  ELSE LET shorter == TextsOf(n - 1)
       IN  shorter \cup {t \o k : t \in shorter, k \in Tokens}

NormTexts == TextsOf(MaxTokens)

\* what the backend promise settles with; bin is the binary string atob
\* yields for the payload ("badBase64": atob throws)
NoBin == <<>>
Failures ==
  {[kind |-> "reject", bin |-> NoBin],
   [kind |-> "noAudio", bin |-> NoBin],
   [kind |-> "badBase64", bin |-> NoBin],
   [kind |-> "data", bin |-> <<7>>]}
Audio == [kind |-> "data", bin |-> <<255, 127, 5>>]
Responses == Failures \cup {Audio}
NoResp == [kind |-> "none", bin |-> NoBin]
\* the backend promise rejects
Rejection == [kind |-> "reject", bin |-> NoBin]

\* binary strings atob may return: every sequence of at most MaxBytes
\* characters whose codes are the extremes of a byte and of a signed sample
ByteValues == {0, 1, 127, 128, 255}
RECURSIVE BinOf(_)
BinOf(n) ==
  IF n = 0 THEN {<<>>}
  ELSE LET shorter == BinOf(n - 1)
       IN  shorter \cup {Append(b, v) : b \in shorter, v \in ByteValues}
Payloads == BinOf(MaxBytes)
DecodeResponses ==
  Failures \cup {[kind |-> "data", bin |-> b] : b \in Payloads}

Modes == {"prefetch", "play"}

(***************************************************************************)
(* Promises and microtasks.                                                *)
(***************************************************************************)
Job(t, c, f, p, r) == [t |-> t, call |-> c, fetch |-> f, play |-> p, resp |-> r]

\* the jobs queued when fetch f settles, one per reaction, in the order
\* the reactions were registered
ReactionJobs(f, reactions) ==
  [i \in 1..Len(reactions) |->
     IF reactions[i].t = "catch"
     THEN Job("catch", 0, f, 0, NoResp)
     ELSE Job("settleOuter", reactions[i].call, f, 0, NoResp)]

\* an IIFE that swallows its errors and leaves its promise unsettled
SettledOnSuccessOnly(fs, f, state, error, frames, rate) ==
  IF state = "fulfilled"
  THEN [fs EXCEPT ![f].state = state, ![f].error = error, ![f].frames = frames,
                  ![f].rate = rate, ![f].awaiting = "done"]
  ELSE fs
\* the IIFE returns or throws: fetchPromise settles
Settled(fs, f, state, error, frames, rate) ==
  [fs EXCEPT ![f].state = state, ![f].error = error, ![f].frames = frames,
             ![f].rate = rate, ![f].awaiting = "done"]

(***************************************************************************)
(* The cache map.                                                          *)
(***************************************************************************)
\* a lookup that never finds an entry
CacheHasNever(cache, key) == FALSE
\* audioCache.has(cacheKey)
CacheHas(cache, key) == key \in DOMAIN cache

\* a miss that registers nothing
CacheSetBug(cache, key, f) == cache
\* audioCache.set(cacheKey, fetchPromise)
CacheSet(cache, key, f) ==
  [k \in (DOMAIN cache) \cup {key} |-> IF k = key THEN f ELSE cache[k]]

\* audioCache.delete(cacheKey)
CacheDelete(cache, key) == [k \in (DOMAIN cache) \ {key} |-> cache[k]]

\* a handler that never evicts
OnRejectedBug(cache, key, state) == cache
\* a handler attached with finally instead of catch
OnSettledBug(cache, key, state) == CacheDelete(cache, key)
\* fetchPromise.catch(() => audioCache.delete(cacheKey)): the handler runs
\* only when the promise is rejected
OnRejected(cache, key, state) ==
  IF state = "rejected" THEN CacheDelete(cache, key) ELSE cache

(***************************************************************************)
(* The shared audio device.                                                *)
(***************************************************************************)
\* a getter that constructs a device on every call
getAudioContextBug(shared, n) == [ctx |-> n + 1, devices |-> n + 1]
\* getAudioContext(): lazily constructs the AudioContext
getAudioContext(shared, n) ==
  IF shared = 0
  THEN [ctx |-> n + 1, devices |-> n + 1]
  ELSE [ctx |-> shared, devices |-> n]

\* the options of `new AudioContext({ sampleRate: AUDIO_SAMPLE_RATE })`
ContextOptions == [sampleRate |-> AUDIO_SAMPLE_RATE]

\* the state update of one getAudioContext() call; a new context starts
\* suspended or running, as the host's autoplay policy decides
UseAudioContext(st) ==
  LET g == getAudioContext(sharedAudioContext, devices)
  IN  /\ sharedAudioContext' = g.ctx
      /\ devices' = g.devices
      /\ ctxLog' = ctxLog \cup {g.ctx}
      /\ ctxState' = IF g.devices > devices THEN st ELSE ctxState
      /\ ctxRate' = IF g.devices > devices THEN ContextOptions.sampleRate
                    ELSE ctxRate

(***************************************************************************)
(* Playback.                                                               *)
(***************************************************************************)
\* a playAudioBuffer that never waits for the device
AwaitsResumeNever(state) == FALSE
\* if (ctx.state === 'suspended') await ctx.resume()
AwaitsResume(state) == state = "suspended"

\* a player that stops the sources still sounding before it starts its own
StartSourceExclusive(ps, p, st) ==
  [q \in 1..Len(ps) |->
     IF q = p
     THEN [ps[q] EXCEPT !.stage = "started", !.source = "playing", !.onState = st]
     ELSE IF ps[q].source = "playing" THEN [ps[q] EXCEPT !.source = "stopped"]
          ELSE ps[q]]
\* createBufferSource, connect(ctx.destination), start(): the source of
\* play p sounds from now on and the promise of the call resolves; st is
\* the state of the device at that moment
StartSource(ps, p, st) ==
  [ps EXCEPT ![p].stage = "started", ![p].source = "playing", ![p].onState = st]

(***************************************************************************)
(* The notebook of App and its persisted copy.                             *)
(***************************************************************************)
\* localStorage.getItem returns null
NoItem == [kind |-> "null"]
\* a stored string that JSON.parse rejects
Corrupt == [kind |-> "garbage", members |-> <<>>]

\* the results lookupWord may return: two words, each with two definitions
Words == {L_x, K_to}
Definitions == {"a", "b"}
Results == [word : Words, definition : Definitions]
Times == 0..MaxTime

\* JSON.stringify of one item: the members in the order of the object,
\* the fields of the result first, then id and timestamp
StringifyItem(n) ==
  <<<<"word", n.word>>, <<"definition", n.definition>>, <<"id", n.id>>,
    <<"timestamp", n.timestamp>>>>
ParseItem(m) ==
  [word |-> m[1][2], definition |-> m[2][2], id |-> m[3][2], timestamp |-> m[4][2]]
\* JSON.stringify(items) and JSON.parse
Stringify(items) ==
  [kind |-> "json", members |-> [i \in 1..Len(items) |-> StringifyItem(items[i])]]
Parseable(str) == str.kind = "json"
Parse(str) == [i \in 1..Len(str.members) |-> ParseItem(str.members[i])]

\* saveToStorage: the value of 'tenma_notebook' after setItem
SaveToStorage(items) == Stringify(items)

\* a guard that never finds the word
HasWordNever(items, word) == FALSE
\* notebook.some((n) => n.word === item.word)
HasWord(items, word) == \E i \in 1..Len(items) : items[i].word = word

(***************************************************************************)
(* Initial states.                                                         *)
(***************************************************************************)
InitStored(ps, rs, ms, n, stored) ==
  /\ pairs = ps
  /\ responses = rs
  /\ modes = ms
  /\ budget = n
  /\ audioCache = <<>>
  /\ sharedAudioContext = 0
  /\ devices = 0
  /\ ctxState = "none"
  /\ ctxLog = {}
  /\ ctxRate = 0
  /\ fetches = <<>>
  /\ requests = <<>>
  /\ calls = <<>>
  /\ plays = <<>>
  /\ mq = <<>>
  /\ inTask = FALSE
  /\ cont = 0
  /\ instance = 0
  /\ playingAudio = 0
  /\ rendered = 0
  /\ notebook = <<>>
  /\ localStorage = stored
  /\ loaded = FALSE
  /\ now = 0
  /\ saves = [n |-> 0, word |-> <<>>, outcome |-> "none"]

\* a first visit: nothing is stored under 'tenma_notebook'
InitState(ps, rs, ms, n) == InitStored(ps, rs, ms, n, NoItem)

\* callers that only await the result (the prefetches of handleSearch and
\* of the ResultView effect)
Init == InitState(AppPairs, Responses, {"prefetch"}, MaxCalls)
\* callers that may also play the buffer (handlePlayAudio)
InitPlay == InitState(AppPairs, Responses, Modes, MaxCalls - 1)
InitApi == InitState(ApiPairs, Responses, {"prefetch"}, MaxCalls)
InitNorm ==
  \E t \in NormTexts : InitState({<<Kore, t>>}, {Audio}, {"prefetch"}, 1)
\* callers whose texts differ only before normalization
InitKey == InitState(KeyPairs, {Rejection, Audio}, {"prefetch"}, MaxCalls)
\* callers that retry from the continuation that saw the failure, and
\* callers that await the promise in a later task
InitRetry ==
  InitState({<<Kore, T_Name>>}, {Rejection, Audio}, {"retry", "late"}, MaxCalls)
\* the prefetches and the play buttons of ResultView
InitView ==
  InitState({<<Kore, T_Name>>}, {Rejection, Audio}, {"prefetch", "ui"},
            MaxCalls - 1)
\* the callers of Init, one call fewer
InitLive == InitState(AppPairs, Responses, {"prefetch"}, MaxCalls - 1)
\* one call, whose backend answer is one of the payloads
InitDecode ==
  \E r \in DecodeResponses : InitState({<<Kore, L_x>>}, {r}, Modes, 1)

(***************************************************************************)
(* Tasks.                                                                  *)
(***************************************************************************)
\* the synchronous part of the IIFE of lines 142-184: the text is
\* normalized and ai.models.generateContent is invoked.  cache is the map
\* as it is at that moment; registered records whether it already holds
\* the entry of this request.
StartWork(cache, key, f, voiceName, text) ==
  [fetch |-> f, voice |-> voiceName, source |-> text,
   text |-> processedText(text), registered |-> CacheHas(cache, key)]

\* generateSpeech(text, voiceName), up to the return of its promise.  The
\* async IIFE runs synchronously up to its first await, so the backend is
\* invoked inside this step, before audioCache.set (line 186).
GenerateSpeech(voiceName, text, mode) ==
  /\ budget > 0
  /\ <<voiceName, text>> \in pairs
  /\ mode \in modes
  /\ mq = <<>> \/ inTask \/ cont # 0
  /\ LET key == cacheKey(voiceName, text)
         c == Len(calls) + 1
     IN  IF CacheHas(audioCache, key)
         THEN LET f == audioCache[key]
              IN  /\ calls' = Append(calls,
                        [voice |-> voiceName, text |-> text, mode |-> mode,
                         fetch |-> f, found |-> fetches[f].state,
                         sameTask |-> mq # <<>>, status |-> "none",
                         error |-> "none", retryOf |-> cont,
                         atObserve |-> "none",
                         instance |-> IF mode = "ui" THEN instance ELSE 0,
                         ended |-> FALSE])
                  /\ mq' = Append(mq, Job("thenable", c, f, 0, NoResp))
                  /\ UNCHANGED <<audioCache, fetches, requests>>
         ELSE LET f == Len(fetches) + 1
              IN  /\ fetches' = Append(fetches,
                        [key |-> key, voice |-> voiceName, source |-> text,
                         text |-> processedText(text), state |-> "pending",
                         awaiting |-> "backend", error |-> "none",
                         frames |-> <<>>, rate |-> 0, scale |-> 0,
                         resp |-> NoResp,
                         reactions |-> <<[t |-> "catch", call |-> 0]>>])
                  /\ requests' = Append(requests,
                        StartWork(audioCache, key, f, voiceName, text))
                  /\ audioCache' = CacheSet(audioCache, key, f)
                  /\ calls' = Append(calls,
                        [voice |-> voiceName, text |-> text, mode |-> mode,
                         fetch |-> f, found |-> "miss",
                         sameTask |-> mq # <<>>, status |-> "none",
                         error |-> "none", retryOf |-> cont,
                         atObserve |-> "none",
                         instance |-> IF mode = "ui" THEN instance ELSE 0,
                         ended |-> FALSE])
                  /\ mq' = Append(mq, Job("thenable", c, f, 0, NoResp))
  /\ budget' = budget - 1
  /\ inTask' = TRUE
  /\ UNCHANGED appVars
  /\ cont' = 0
  /\ UNCHANGED <<pairs, responses, modes, sharedAudioContext, devices,
                 ctxState, ctxLog, ctxRate, plays>>

\* the promise of ai.models.generateContent settles (a network task) and
\* the continuation of the IIFE is queued
BackendRespond(f, r) ==
  /\ mq = <<>>
  /\ f \in 1..Len(fetches)
  /\ fetches[f].awaiting = "backend"
  /\ r \in responses
  /\ fetches' = [fetches EXCEPT ![f].awaiting = "resume", ![f].resp = r]
  /\ mq' = <<Job("resume", 0, f, 0, r)>>
  /\ inTask' = FALSE
  /\ UNCHANGED appVars
  /\ cont' = 0
  /\ UNCHANGED viewVars
  /\ UNCHANGED <<pairs, responses, modes, budget, audioCache, sharedAudioContext, devices,
                 ctxState, ctxLog, ctxRate, requests, calls, plays>>

\* the promise of ctx.resume() settles
ResumeSettle(p, ok) ==
  /\ mq = <<>>
  /\ p \in 1..Len(plays)
  /\ plays[p].stage = "resuming"
  /\ plays' = [plays EXCEPT ![p].stage = "resumeSettled"]
  /\ ctxState' = IF ok THEN "running" ELSE ctxState
  /\ mq' = <<Job("resumed", 0, 0, p,
                 [kind |-> IF ok THEN "ok" ELSE "reject", bin |-> NoBin])>>
  /\ inTask' = FALSE
  /\ UNCHANGED appVars
  /\ cont' = 0
  /\ UNCHANGED viewVars
  /\ UNCHANGED <<pairs, responses, modes, budget, audioCache, sharedAudioContext, devices,
                 ctxLog, ctxRate, fetches, requests, calls>>

\* the host suspends the running device (an interruption, a frozen page)
HostSuspend ==
  /\ mq = <<>>
  /\ ctxState = "running"
  /\ ctxState' = "suspended"
  /\ inTask' = FALSE
  /\ UNCHANGED appVars
  /\ cont' = 0
  /\ UNCHANGED viewVars
  /\ UNCHANGED <<pairs, responses, modes, budget, audioCache, sharedAudioContext,
                 devices, ctxLog, ctxRate, fetches, requests, calls, plays, mq>>

\* the source of play p has played its buffer to the end
PlaybackEnds(p) ==
  /\ mq = <<>>
  /\ p \in 1..Len(plays)
  /\ plays[p].source = "playing"
  /\ plays' = [plays EXCEPT ![p].source = "ended"]
  /\ inTask' = FALSE
  /\ UNCHANGED appVars
  /\ cont' = 0
  /\ UNCHANGED viewVars
  /\ UNCHANGED <<pairs, responses, modes, budget, audioCache, sharedAudioContext,
                 devices, ctxState, ctxLog, ctxRate, fetches, requests, calls, mq>>

\* a handler without its guard
BusyNever(flag) == FALSE
\* if (playingAudio) return;
Busy(flag) == flag # 0

\* a click on a play button of the mounted ResultView: handlePlayAudio up
\* to its first await.  The handler reads the playingAudio of the render
\* it was created in; React re-renders at the end of the click event, so
\* the next event meets the new value.
HandlePlayAudio(voiceName, text) ==
  /\ mq = <<>>
  /\ instance # 0
  /\ "ui" \in modes
  /\ budget > 0
  /\ IF Busy(rendered)
     THEN /\ budget' = budget - 1
          /\ inTask' = FALSE
          /\ UNCHANGED appVars
          /\ cont' = 0
          /\ UNCHANGED <<pairs, responses, modes, audioCache, sharedAudioContext,
                         devices, ctxState, ctxLog, ctxRate, fetches, requests,
                         calls, plays, mq, viewVars>>
     ELSE /\ GenerateSpeech(voiceName, text, "ui")
          /\ playingAudio' = Len(calls) + 1
          /\ rendered' = Len(calls) + 1
          /\ instance' = instance

\* React renders the component again after a state change made outside an
\* event handler
Render ==
  /\ mq = <<>>
  /\ instance # 0
  /\ rendered # playingAudio
  /\ rendered' = playingAudio
  /\ inTask' = FALSE
  /\ UNCHANGED appVars
  /\ cont' = 0
  /\ UNCHANGED <<pairs, responses, modes, budget, audioCache, sharedAudioContext,
                 devices, ctxState, ctxLog, ctxRate, fetches, requests, calls,
                 plays, mq, instance, playingAudio>>

\* App shows a result: a ResultView is mounted, after the one that was
\* shown before (if any) was unmounted; its state starts at null
Mount ==
  /\ mq = <<>>
  /\ "ui" \in modes
  /\ instance < MaxCalls - 1
  /\ instance' = instance + 1
  /\ playingAudio' = 0
  /\ rendered' = 0
  /\ inTask' = FALSE
  /\ UNCHANGED appVars
  /\ cont' = 0
  /\ UNCHANGED <<pairs, responses, modes, budget, audioCache, sharedAudioContext,
                 devices, ctxState, ctxLog, ctxRate, fetches, requests, calls,
                 plays, mq>>

\* a "late" caller awaits the promise it kept
LateObserve(c) ==
  /\ mq = <<>>
  /\ c \in 1..Len(calls)
  /\ calls[c].status = "ready"
  /\ calls' = [calls EXCEPT ![c].status = "awaited"]
  /\ mq' = <<Job("observe", c, calls[c].fetch, 0, NoResp)>>
  /\ inTask' = FALSE
  /\ UNCHANGED appVars
  /\ cont' = 0
  /\ UNCHANGED viewVars
  /\ UNCHANGED <<pairs, responses, modes, budget, audioCache, sharedAudioContext,
                 devices, ctxState, ctxLog, ctxRate, fetches, requests, plays>>

(***************************************************************************)
(* Microtasks.  The job at the head of the queue runs; a task starts only  *)
(* when the queue is empty.                                                *)
(***************************************************************************)
NewContextStates == {"suspended", "running"}

\* generateSpeech is async and returns a promise: its own promise is
\* resolved with fetchPromise by a job that calls fetchPromise.then
ThenableJob ==
  /\ mq # <<>>
  /\ Head(mq).t = "thenable"
  /\ LET c == Head(mq).call
         f == Head(mq).fetch
     IN  IF fetches[f].state = "pending"
         THEN /\ fetches' = [fetches EXCEPT ![f].reactions =
                               Append(@, [t |-> "outer", call |-> c])]
              /\ mq' = Tail(mq)
         ELSE /\ mq' = Append(Tail(mq), Job("settleOuter", c, f, 0, NoResp))
              /\ UNCHANGED fetches
  /\ inTask' = FALSE
  /\ UNCHANGED appVars
  /\ cont' = 0
  /\ UNCHANGED viewVars
  /\ UNCHANGED <<pairs, responses, modes, budget, audioCache, sharedAudioContext, devices,
                 ctxState, ctxLog, ctxRate, requests, calls, plays>>

\* the IIFE after `await ai.models.generateContent(...)`.  The device is
\* obtained before the payload is decoded (lines 182-183); the second copy
\* of the module (line 407) decodes first, which differs only in whether a
\* payload atob rejects has constructed the device.
ResumeJob ==
  /\ mq # <<>>
  /\ Head(mq).t = "resume"
  /\ LET f == Head(mq).fetch
         r == Head(mq).resp
         failed(e) ==
           /\ fetches' = Settled(fetches, f, "rejected", e, <<>>, 0)
           /\ mq' = Tail(mq) \o ReactionJobs(f, fetches[f].reactions)
     IN  CASE r.kind = "reject" ->
                /\ failed("backend")
                /\ UNCHANGED <<sharedAudioContext, devices, ctxState, ctxLog, ctxRate>>
           [] r.kind = "noAudio" ->
                /\ failed("noAudio")
                /\ UNCHANGED <<sharedAudioContext, devices, ctxState, ctxLog, ctxRate>>
           [] r.kind = "badBase64" ->
                /\ \E st \in NewContextStates : UseAudioContext(st)
                /\ failed("base64")
           [] OTHER ->
                /\ \E st \in NewContextStates : UseAudioContext(st)
                /\ fetches' = [fetches EXCEPT ![f].awaiting = "decode"]
                /\ mq' = Append(Tail(mq), Job("decoded", 0, f, 0, r))
  /\ inTask' = FALSE
  /\ UNCHANGED appVars
  /\ cont' = 0
  /\ UNCHANGED viewVars
  /\ UNCHANGED <<pairs, responses, modes, budget, audioCache, requests, calls, plays>>

\* the IIFE after `return await decodeAudioData(decode(base64Audio), ctx)`
DecodedJob ==
  /\ mq # <<>>
  /\ Head(mq).t = "decoded"
  /\ LET f == Head(mq).fetch
         d == decodeAudioData(decode(Head(mq).resp.bin))
     IN  /\ fetches' = IF d.ok
                       THEN [Settled(fetches, f, "fulfilled", "none",
                                     d.frames, d.rate)
                               EXCEPT ![f].scale = d.scale]
                       ELSE Settled(fetches, f, "rejected", "decode", <<>>, 0)
         /\ mq' = Tail(mq) \o ReactionJobs(f, fetches[f].reactions)
  /\ inTask' = FALSE
  /\ UNCHANGED appVars
  /\ cont' = 0
  /\ UNCHANGED viewVars
  /\ UNCHANGED <<pairs, responses, modes, budget, audioCache, sharedAudioContext, devices,
                 ctxState, ctxLog, ctxRate, requests, calls, plays>>

\* the reaction registered by fetchPromise.catch(...)
CatchJob ==
  /\ mq # <<>>
  /\ Head(mq).t = "catch"
  /\ LET f == Head(mq).fetch
     IN  audioCache' = OnRejected(audioCache, fetches[f].key, fetches[f].state)
  /\ mq' = Tail(mq)
  /\ inTask' = FALSE
  /\ UNCHANGED appVars
  /\ cont' = 0
  /\ UNCHANGED viewVars
  /\ UNCHANGED <<pairs, responses, modes, budget, sharedAudioContext, devices, ctxState, ctxLog, ctxRate,
                 fetches, requests, calls, plays>>

\* the promise generateSpeech returned settles as fetchPromise did; a
\* "late" caller has kept the promise and awaits it in a later task
SettleOuterJob ==
  /\ mq # <<>>
  /\ Head(mq).t = "settleOuter"
  /\ IF calls[Head(mq).call].mode = "late"
     THEN /\ calls' = [calls EXCEPT ![Head(mq).call].status = "ready"]
          /\ mq' = Tail(mq)
     ELSE /\ mq' = Append(Tail(mq), Job("observe", Head(mq).call,
                                        Head(mq).fetch, 0, NoResp))
          /\ UNCHANGED calls
  /\ inTask' = FALSE
  /\ UNCHANGED appVars
  /\ cont' = 0
  /\ UNCHANGED viewVars
  /\ UNCHANGED <<pairs, responses, modes, budget, audioCache, sharedAudioContext, devices,
                 ctxState, ctxLog, ctxRate, fetches, requests, plays>>

\* what setPlayingAudio(null) of invocation c leaves in playingAudio: the
\* state of an unmounted component is gone and the call has no effect
Finally(c) == IF calls[c].instance = instance THEN 0 ELSE playingAudio

\* the promise a caller observes is the one it was handed, whatever the
\* cache holds by then; the mutant looks the key up again
ObservedFetchFromCache(cache, key, f) ==
  IF CacheHas(cache, key) THEN cache[key] ELSE f
ObservedFetch(cache, key, f) == f

\* the caller's continuation: .catch(() => {}) for a prefetch, or
\* `await generateSpeech(...)` followed by playAudioBuffer(buffer) up to
\* its first await; in handlePlayAudio ("ui") a failure runs the catch and
\* finally blocks here, and a playback that has started lets the function
\* go on after `await playAudioBuffer(buffer)`.  atObserve records what the
\* cache holds under the key
\* at that moment; a "retry" or "late" caller that sees a failure may call
\* generateSpeech again from this continuation.
ObserveJob ==
  /\ mq # <<>>
  /\ Head(mq).t = "observe"
  /\ LET c == Head(mq).call
         held == Head(mq).fetch
         key == fetches[held].key
         f == ObservedFetch(audioCache, key, held)
         ok == fetches[f].state = "fulfilled"
         ui == calls[c].mode = "ui"
     IN  /\ calls' = [calls EXCEPT
                        ![c].status = IF ok THEN "buffer" ELSE "error",
                        ![c].error = fetches[f].error,
                        ![c].atObserve =
                           IF ~ CacheHas(audioCache, key) THEN "absent"
                           ELSE IF audioCache[key] = held THEN "own"
                           ELSE fetches[audioCache[key]].state,
                        ![c].ended = ui /\ ~ ok]
         /\ cont' = IF ~ ok /\ calls[c].mode \in {"retry", "late"} THEN c ELSE 0
         /\ playingAudio' = IF ui /\ ~ ok THEN Finally(c) ELSE playingAudio
         /\ UNCHANGED <<instance, rendered>>
         /\ IF ok /\ calls[c].mode \in {"play", "ui"}
            THEN /\ \E st \in NewContextStates : UseAudioContext(st)
                 /\ LET p == Len(plays) + 1
                        entered == Append(plays,
                          [call |-> c, buffer |-> f, stage |-> "resuming",
                           source |-> "none", onState |-> "none",
                           suspendedAtCall |-> ctxState' = "suspended"])
                    IN  plays' = IF AwaitsResume(ctxState') THEN entered
                                 ELSE StartSource(entered, p, ctxState')
            ELSE UNCHANGED <<sharedAudioContext, devices, ctxState, ctxLog, ctxRate,
                             plays>>
         /\ mq' = IF ui /\ ok /\ ~ AwaitsResume(ctxState')
                  THEN Append(Tail(mq), Job("finally", c, f, 0, NoResp))
                  ELSE Tail(mq)
  /\ inTask' = FALSE
  /\ UNCHANGED appVars
  /\ UNCHANGED <<pairs, responses, modes, budget, audioCache, fetches, requests>>

\* playAudioBuffer after `await ctx.resume()`; its promise settles and
\* handlePlayAudio goes on after its await
ResumedJob ==
  /\ mq # <<>>
  /\ Head(mq).t = "resumed"
  /\ LET p == Head(mq).play
     IN  plays' = IF Head(mq).resp.kind = "ok"
                  THEN StartSource(plays, p, ctxState)
                  ELSE [plays EXCEPT ![p].stage = "failed"]
  /\ mq' = IF calls[plays[Head(mq).play].call].mode = "ui"
           THEN Append(Tail(mq), Job("finally", plays[Head(mq).play].call,
                                     0, 0, NoResp))
           ELSE Tail(mq)
  /\ inTask' = FALSE
  /\ UNCHANGED appVars
  /\ cont' = 0
  /\ UNCHANGED viewVars
  /\ UNCHANGED <<pairs, responses, modes, budget, audioCache, sharedAudioContext, devices,
                 ctxState, ctxLog, ctxRate, fetches, requests, calls>>

\* handlePlayAudio after `await playAudioBuffer(buffer)`: the finally block
FinallyJob ==
  /\ mq # <<>>
  /\ Head(mq).t = "finally"
  /\ calls' = [calls EXCEPT ![Head(mq).call].ended = TRUE]
  /\ playingAudio' = Finally(Head(mq).call)
  /\ mq' = Tail(mq)
  /\ inTask' = FALSE
  /\ UNCHANGED appVars
  /\ cont' = 0
  /\ UNCHANGED <<pairs, responses, modes, budget, audioCache, sharedAudioContext,
                 devices, ctxState, ctxLog, ctxRate, fetches, requests, plays,
                 instance, rendered>>

\* synthesis: generateSpeech, the backend and the promise jobs
Synthesis ==
  \/ \E v \in {pr[1] : pr \in pairs}, t \in {pr[2] : pr \in pairs},
        m \in modes \ {"ui"} : GenerateSpeech(v, t, m) /\ UNCHANGED viewVars
  \/ \E f \in 1..Len(fetches), r \in responses : BackendRespond(f, r)
  \/ ThenableJob
  \/ ResumeJob
  \/ DecodedJob
  \/ CatchJob
  \/ SettleOuterJob
  \/ ObserveJob

\* playback: the resumption of a suspended device, the host and the end
\* of a source
Playback ==
  \/ \E p \in 1..Len(plays), ok \in BOOLEAN : ResumeSettle(p, ok)
  \/ ResumedJob
  \/ HostSuspend
  \/ \E p \in 1..Len(plays) : PlaybackEnds(p)

\* callers that keep the promise and await it later
Holders == \E c \in 1..Len(calls) : LateObserve(c)

\* the play buttons of ResultView
View ==
  \/ \E v \in {pr[1] : pr \in pairs}, t \in {pr[2] : pr \in pairs} :
        HandlePlayAudio(v, t)
  \/ FinallyJob
  \/ Render
  \/ Mount

Next == Synthesis \/ Playback

Spec == Init /\ [][Synthesis]_vars
SpecPlay == InitPlay /\ [][Next]_vars
SpecApi == InitApi /\ [][Synthesis]_vars
SpecNorm == InitNorm /\ [][Synthesis]_vars
SpecDecode == InitDecode /\ [][Synthesis]_vars
SpecKey == InitKey /\ [][Synthesis]_vars
SpecView == InitView /\ [][Synthesis \/ Playback \/ View]_vars
SpecRetry == InitRetry /\ [][Synthesis \/ Holders]_vars

\* the backend answers every invocation sooner or later, and the event loop
\* runs the queued microtasks
BackendAnswers ==
  \E f \in 1..Len(fetches), r \in responses : BackendRespond(f, r)
Microtasks ==
  \/ ThenableJob
  \/ ResumeJob
  \/ DecodedJob
  \/ CatchJob
  \/ SettleOuterJob
  \/ ObserveJob
SpecLive ==
  /\ InitLive
  /\ [][Synthesis]_vars
  /\ WF_vars(BackendAnswers)
  /\ WF_vars(Microtasks)

(***************************************************************************)
(* Vocabulary of the properties.                                           *)
(***************************************************************************)
CallIds == 1..Len(calls)
FetchIds == 1..Len(fetches)
Quiet == mq = <<>>
KeyOf(c) == cacheKey(calls[c].voice, calls[c].text)
SamePair(c, d) == calls[c].voice = calls[d].voice /\ calls[c].text = calls[d].text
RequestsOf(f) == {r \in 1..Len(requests) : requests[r].fetch = f}
FetchesOfKey(k) == {f \in FetchIds : fetches[f].key = k}
\* this step is a generateSpeech call
IsCallStep == Len(calls') = Len(calls) + 1
NewCall == calls'[Len(calls')]
NoBackendCall == requests' = requests

(***************************************************************************)
(* C1: generateSpeech calls for one (voice, text) pair that overlap (same  *)
(* task, or while the entry is in flight) share one backend invocation:    *)
(* a call that meets an earlier call's in-flight entry is handed that      *)
(* entry and invokes nothing, every entry has exactly one invocation, for  *)
(* the pair of its callers, no key has two in-flight entries, and callers  *)
(* of one entry observe the same buffer or the same failure.               *)
(***************************************************************************)
C1_State ==
  /\ \A f, g \in FetchIds :
       (f # g /\ fetches[f].key = fetches[g].key)
         => ~ (fetches[f].state = "pending" /\ fetches[g].state = "pending")
  /\ \A c \in CallIds :
       /\ Cardinality(RequestsOf(calls[c].fetch)) = 1
       /\ \A r \in RequestsOf(calls[c].fetch) :
            requests[r].voice = calls[c].voice /\ requests[r].source = calls[c].text
  /\ \A c, d \in CallIds :
       (calls[c].fetch = calls[d].fetch /\ calls[c].status # "none"
          /\ calls[d].status # "none")
         => (calls[c].status = calls[d].status /\ calls[c].error = calls[d].error)

C1_Step ==
  IsCallStep =>
    \A c \in CallIds :
      (calls[c].voice = NewCall.voice /\ calls[c].text = NewCall.text
         /\ fetches[calls[c].fetch].state = "pending")
        => (NewCall.fetch = calls[c].fetch /\ NoBackendCall)

C1_Dedup == [](C1_State) /\ [][C1_Step]_vars

C1_Witness ==
  \E c, d, e \in CallIds :
    /\ c < d /\ d < e
    /\ SamePair(c, d) /\ SamePair(d, e)
    /\ calls[d].sameTask /\ calls[d].found = "pending"
    /\ ~ calls[e].sameTask /\ calls[e].found = "pending"
    /\ calls[c].status = "buffer" /\ calls[d].status = "buffer"
    /\ calls[e].status = "buffer"
    /\ Len(requests) = 1

(***************************************************************************)
(* C2 as stated: for a cache key the backend is invoked exactly once,      *)
(* whatever the outcome.                                                   *)
(***************************************************************************)
C2_ExactlyOnce ==
  \A c \in CallIds : Cardinality(FetchesOfKey(KeyOf(c))) = 1

(***************************************************************************)
(* C2 amended: for a cache key the backend is invoked at least once, and   *)
(* again only after every earlier invocation for the key has failed; a key *)
(* whose invocation is in flight or has succeeded is not invoked again.    *)
(***************************************************************************)
C2_OncePerAttempt ==
  /\ \A c \in CallIds :
       /\ FetchesOfKey(KeyOf(c)) # {}
       /\ \A f \in FetchesOfKey(KeyOf(c)) : Cardinality(RequestsOf(f)) = 1
  /\ \A f, g \in FetchIds :
       (f < g /\ fetches[f].key = fetches[g].key)
         => fetches[f].state = "rejected"

C2_Witness ==
  \E f, g \in FetchIds :
    /\ f < g
    /\ fetches[f].key = fetches[g].key
    /\ fetches[f].state = "rejected"
    /\ fetches[g].state = "fulfilled"
    /\ \E c \in CallIds : calls[c].fetch = g /\ calls[c].found = "fulfilled"

(***************************************************************************)
(* C3: a failure is never memoized: no call is handed a failed entry, no   *)
(* failed entry is in the cache when a task starts, and a call for a key   *)
(* whose invocations have all failed misses the cache and invokes the      *)
(* backend anew.                                                           *)
(***************************************************************************)
C3_State ==
  /\ \A c \in CallIds : calls[c].found # "rejected"
  /\ Quiet => \A k \in DOMAIN audioCache :
                fetches[audioCache[k]].state # "rejected"

C3_Step ==
  IsCallStep =>
    LET k == cacheKey(NewCall.voice, NewCall.text)
    IN  (FetchesOfKey(k) # {}
           /\ \A f \in FetchesOfKey(k) : fetches[f].state = "rejected")
          => /\ NewCall.found = "miss"
             /\ Len(requests') = Len(requests) + 1
             /\ requests'[Len(requests')].fetch = NewCall.fetch
             /\ requests'[Len(requests')].voice = NewCall.voice
             /\ requests'[Len(requests')].source = NewCall.text

C3_RetryAfterFailure == [](C3_State) /\ [][C3_Step]_vars

C3_Witness ==
  \E c, d \in CallIds :
    /\ c < d
    /\ SamePair(c, d)
    /\ calls[c].status = "error"
    /\ calls[d].found = "miss"
    /\ calls[d].fetch # calls[c].fetch
    /\ Len(requests) = 2

(***************************************************************************)
(* C4: whatever step of the asynchronous work failed, once the microtasks  *)
(* have run the failed entry is no longer in the cache and every caller    *)
(* that was handed it has observed that failure; no caller of a failed     *)
(* entry ever has a buffer.                                                *)
(***************************************************************************)
C4_FailurePropagates ==
  \A f \in FetchIds :
    fetches[f].state = "rejected" =>
      /\ fetches[f].error \in {"backend", "noAudio", "base64", "decode"}
      /\ \A c \in CallIds : calls[c].fetch = f => calls[c].status # "buffer"
      /\ Quiet =>
           /\ ~ (CacheHas(audioCache, fetches[f].key)
                   /\ audioCache[fetches[f].key] = f)
           /\ \A c \in CallIds :
                calls[c].fetch = f =>
                  (calls[c].status = "error" /\ calls[c].error = fetches[f].error)

C4_Witness ==
  /\ Quiet
  /\ \E f \in FetchIds :
       /\ fetches[f].state = "rejected"
       /\ fetches[f].error = "decode"
       /\ ~ CacheHas(audioCache, fetches[f].key)
       /\ \E c, d \in CallIds :
            /\ c # d
            /\ calls[c].fetch = f /\ calls[d].fetch = f
            /\ calls[c].status = "error" /\ calls[d].status = "error"

(***************************************************************************)
(* C5: an entry that resolved successfully stays in the cache for ever; a  *)
(* later call for its key is handed that entry, invokes nothing and        *)
(* observes its buffer, whatever happened to other keys in between.        *)
(***************************************************************************)
C5_State ==
  \A c \in CallIds :
    calls[c].found = "fulfilled" =>
      /\ fetches[calls[c].fetch].state = "fulfilled"
      /\ fetches[calls[c].fetch].key = KeyOf(c)
      /\ calls[c].status # "error"
      /\ CacheHas(audioCache, KeyOf(c)) /\ audioCache[KeyOf(c)] = calls[c].fetch

C5_Step ==
  /\ \A k \in DOMAIN audioCache :
       fetches[audioCache[k]].state = "fulfilled"
         => (CacheHas(audioCache', k) /\ audioCache'[k] = audioCache[k])
  /\ IsCallStep =>
       LET k == cacheKey(NewCall.voice, NewCall.text)
       IN  (CacheHas(audioCache, k) /\ fetches[audioCache[k]].state = "fulfilled")
             => (NewCall.fetch = audioCache[k] /\ NoBackendCall)

C5_SuccessIsPermanent == [](C5_State) /\ [][C5_Step]_vars

C5_Witness ==
  \E c, d \in CallIds :
    /\ c < d
    /\ calls[d].found = "fulfilled"
    /\ calls[d].status = "buffer"
    /\ fetches[calls[c].fetch].state = "rejected"
    /\ fetches[calls[c].fetch].key # KeyOf(d)
    /\ fetches[calls[c].fetch].awaiting = "done"
    /\ calls[c].fetch > calls[d].fetch

(***************************************************************************)
(* C7: at most one AudioContext is ever constructed; every call of         *)
(* getAudioContext, from generateSpeech or from playAudioBuffer, returns   *)
(* that one, and the handle, once set, never changes.                      *)
(***************************************************************************)
C7_State ==
  /\ devices <= 1
  /\ Cardinality(ctxLog) <= 1
  /\ sharedAudioContext = 0 => ctxLog = {}
  /\ sharedAudioContext # 0 => ctxLog = {sharedAudioContext}

C7_Step == sharedAudioContext # 0 => sharedAudioContext' = sharedAudioContext

C7_DeviceSingleton == [](C7_State) /\ [][C7_Step]_vars

C7_Witness ==
  /\ devices = 1
  /\ \E p \in 1..Len(plays) : plays[p].stage = "started"
  /\ \E f, g \in FetchIds :
       f # g /\ fetches[f].state = "fulfilled" /\ fetches[g].state = "fulfilled"

FollowedByHonorific(s, i) ==
  \E h \in Honorifics : MatchAt(s, i + Len(FullName), h)

RECURSIVE PerOccurrence(_, _)
PerOccurrence(s, i) ==
  IF i > Len(s) THEN <<>>
  ELSE IF MatchAt(s, i, FullName)
       THEN (IF FollowedByHonorific(s, i) THEN AmamiYuuki ELSE AmamiYuukiSan)
              \o PerOccurrence(s, i + Len(FullName))
       ELSE IF MatchAt(s, i, Surname)
                 /\ ~ (i + 2 <= Len(s) /\ s[i + 2] = C_Yuu)
            THEN Amami \o PerOccurrence(s, i + Len(Surname))
            ELSE <<s[i]>> \o PerOccurrence(s, i + 1)

Occurrences(s, pat) == {i \in 1..Len(s) : MatchAt(s, i, pat)}

(***************************************************************************)
(* C8 as stated: each occurrence of the full name is rewritten according   *)
(* to its own suffix: the reading alone when an honorific follows it, the  *)
(* reading plus "san" when none does.                                      *)
(***************************************************************************)
C8_PerOccurrenceHonorific ==
  \A r \in 1..Len(requests) :
    requests[r].text = PerOccurrence(requests[r].source, 1)

(***************************************************************************)
(* C9: a text with exactly one occurrence of the full name is sent with    *)
(* that occurrence replaced by the reading plus "san" when no honorific    *)
(* follows it, and by the reading alone when one does.                     *)
(***************************************************************************)
C9_SingleOccurrence ==
  \A r \in 1..Len(requests) :
    LET s == requests[r].source
        occ == Occurrences(s, FullName)
    IN  Cardinality(occ) = 1 =>
          /\ requests[r].text = PerOccurrence(s, 1)
          /\ \A i \in occ :
               (Occurrences(s, Surname) = {i}) =>
                 requests[r].text =
                   SubSeq(s, 1, i - 1)
                     \o (IF FollowedByHonorific(s, i) THEN AmamiYuuki
                         ELSE AmamiYuukiSan)
                     \o SubSeq(s, i + Len(FullName), Len(s))

C9_Witness ==
  \E r \in 1..Len(requests) :
    /\ requests[r].source = L_x \o FullName \o <<H_chi, H_ya, H_n>>
    /\ requests[r].text = L_x \o AmamiYuuki \o <<H_chi, H_ya, H_n>>

(***************************************************************************)
(* C10 as stated: no occurrence of the surname that is not followed by the *)
(* given name is left in the text sent to the backend.                     *)
(***************************************************************************)
C10_NoSurnameLeft ==
  \A r \in 1..Len(requests) :
    \A i \in Occurrences(requests[r].text, Surname) :
      MatchAt(requests[r].text, i + Len(Surname), <<C_Yuu, C_Ki>>)

(***************************************************************************)
(* Which characters of FullNameFix(s) were inserted by rule 1: a sequence  *)
(* of booleans parallel to ReplaceFullName(s, i, rep).                     *)
(***************************************************************************)
RECURSIVE InsertedBy(_, _, _)
InsertedBy(s, i, rep) ==
  IF i > Len(s) THEN <<>>
  ELSE IF MatchAt(s, i, FullName)
       THEN [j \in 1..Len(rep) |-> TRUE] \o InsertedBy(s, i + Len(FullName), rep)
       ELSE <<FALSE>> \o InsertedBy(s, i + 1, rep)

Inserted(s) ==
  IF Includes(s, FullName)
  THEN InsertedBy(s, 1, IF HonorificTest(s) THEN AmamiYuuki ELSE AmamiYuukiSan)
  ELSE [j \in 1..Len(s) |-> FALSE]

\* the positions of m the surname rule rewrites
SurnameHits(m) ==
  {i \in Occurrences(m, Surname) : ~ MatchAt(m, i + Len(Surname), <<C_Yuu>>)}

(***************************************************************************)
(* C11: the surname rule rewrites no character that the full-name rule     *)
(* inserted, and the normalizer is idempotent: normalizing the text that   *)
(* was sent to the backend gives that text again.                          *)
(***************************************************************************)
C11_Idempotent ==
  \A r \in 1..Len(requests) :
    LET s == requests[r].source
        m == FullNameFix(s)
    IN  /\ processedText(requests[r].text) = requests[r].text
        /\ processedText(processedText(s)) = processedText(s)
        /\ Len(Inserted(s)) = Len(m)
        /\ \A i \in SurnameHits(m) :
             \A j \in i..(i + Len(Surname) - 1) : ~ Inserted(s)[j]

C11_Witness ==
  \E r \in 1..Len(requests) :
    /\ requests[r].source = Surname \o Surname \o FullName
    /\ requests[r].text = Amami \o Amami \o AmamiYuukiSan
    /\ processedText(requests[r].text) = requests[r].text

(***************************************************************************)
(* C12: a text with no character in the Hiragana, Katakana or CJK          *)
(* ideograph ranges is sent to the backend exactly as it was given.        *)
(***************************************************************************)
InKanaOrCJK(c) ==
  \/ c \in 12352..12447
  \/ c \in 12448..12543
  \/ c \in 13312..19903
  \/ c \in 19968..40959

C12_NonJapaneseUnchanged ==
  \A r \in 1..Len(requests) :
    (\A i \in 1..Len(requests[r].source) : ~ InKanaOrCJK(requests[r].source[i]))
      => requests[r].text = requests[r].source

C12_Witness ==
  \E r \in 1..Len(requests) :
    /\ requests[r].source = L_x \o K_maru \o L_x
    /\ requests[r].text = L_x \o K_maru \o L_x

(***************************************************************************)
(* Vocabulary of the decoding properties: the fetches whose backend answer *)
(* carried a payload and whose decoding is over, and the bytes of it.      *)
(***************************************************************************)
Decoded ==
  {f \in FetchIds : fetches[f].awaiting = "done" /\ fetches[f].resp.kind = "data"}
Bytes(f) == fetches[f].resp.bin
Fulfilled == {f \in FetchIds : fetches[f].state = "fulfilled"}

(***************************************************************************)
(* C13 as stated: a payload of any odd length L, L = 1 included, and of    *)
(* any even length decodes without throwing and yields floor(L / 2)        *)
(* frames.                                                                 *)
(***************************************************************************)
C13_AnyLengthDecodes ==
  \A f \in Decoded :
    Len(Bytes(f)) >= 1 =>
      /\ fetches[f].state = "fulfilled"
      /\ Len(fetches[f].frames) = Len(Bytes(f)) \div 2

(***************************************************************************)
(* C13 amended: a payload of odd length L >= 3 decodes without throwing    *)
(* and yields floor(L / 2) frames, the trailing byte being dropped; an     *)
(* even length L >= 2 yields L / 2 frames; a payload of one byte holds no  *)
(* frame and its decoding fails.                                           *)
(***************************************************************************)
C13_OddLengthTrimmed ==
  \A f \in Decoded :
    LET L == Len(Bytes(f))
    IN  /\ L >= 2 => /\ fetches[f].state = "fulfilled"
                     /\ Len(fetches[f].frames) = L \div 2
                     /\ 2 * Len(fetches[f].frames) = IF L % 2 = 1 THEN L - 1 ELSE L
        /\ L = 1 => /\ fetches[f].state = "rejected"
                    /\ fetches[f].error = "decode"

C13_Witness ==
  \E f \in Decoded :
    /\ Len(Bytes(f)) = 3
    /\ fetches[f].state = "fulfilled"
    /\ Len(fetches[f].frames) = 1

(***************************************************************************)
(* C14: decoding an empty or malformed payload (no payload, a payload      *)
(* that is not base64, or one with no complete sample) fails with an       *)
(* error and no caller is handed a buffer; a buffer that is handed out is  *)
(* never empty and never partially filled: it has every frame of the       *)
(* payload.                                                                *)
(***************************************************************************)
Malformed(r) ==
  \/ r.kind \in {"noAudio", "badBase64"}
  \/ (r.kind = "data" /\ Len(r.bin) < 2)

C14_AllOrNothing ==
  /\ \A f \in FetchIds :
       (fetches[f].awaiting = "done" /\ Malformed(fetches[f].resp)) =>
         /\ fetches[f].state = "rejected"
         /\ fetches[f].error \in {"noAudio", "base64", "decode"}
         /\ \A c \in CallIds : calls[c].fetch = f => calls[c].status # "buffer"
  /\ \A f \in FetchIds :
       IF fetches[f].state = "fulfilled"
       THEN /\ Len(fetches[f].frames) >= 1
            /\ Len(fetches[f].frames) = Len(Bytes(f)) \div 2
            /\ \A i \in 1..Len(fetches[f].frames) : fetches[f].frames[i] \in Int
       ELSE fetches[f].frames = <<>>

C14_Witness ==
  \E f \in FetchIds, c \in CallIds :
    /\ fetches[f].resp = [kind |-> "data", bin |-> <<>>]
    /\ fetches[f].state = "rejected"
    /\ calls[c].fetch = f
    /\ calls[c].status = "error"

(***************************************************************************)
(* C15: frame i of a decoded buffer is the signed 16-bit little-endian     *)
(* integer of bytes 2i and 2i + 1 (counted from 0) divided by 32768, so    *)
(* every sample v has -1 <= v < 1, and the buffer has as many frames as    *)
(* the payload has complete 16-bit samples.                                *)
(***************************************************************************)
C15_SampleValues ==
  \A f \in Fulfilled :
    /\ fetches[f].scale = 32768
    /\ Len(fetches[f].frames) = Len(Bytes(f)) \div 2
    /\ \A i \in 1..Len(fetches[f].frames) :
         LET n == fetches[f].frames[i]
             lo == Bytes(f)[2 * i - 1]
             hi == Bytes(f)[2 * i]
         IN  /\ n = IF hi >= 128 THEN lo + 256 * hi - 65536 ELSE lo + 256 * hi
             /\ (0 - 1) * fetches[f].scale <= n
             /\ n < fetches[f].scale

C15_Witness ==
  \E f \in Fulfilled :
    /\ Bytes(f) = <<0, 128, 255, 127>>
    /\ fetches[f].frames = <<0 - 32768, 32767>>

(***************************************************************************)
(* C16: every decoded buffer has the sample rate 24000, whatever the       *)
(* length of its payload, and the device that made it was constructed      *)
(* with the same rate.                                                     *)
(***************************************************************************)
C16_SampleRate ==
  /\ \A f \in Fulfilled :
       /\ fetches[f].rate = 24000
       /\ sharedAudioContext # 0
       /\ ctxRate = fetches[f].rate
  /\ devices > 0 => ctxRate = 24000

C16_Witness ==
  \E f \in Fulfilled :
    /\ Len(Bytes(f)) = MaxBytes
    /\ fetches[f].rate = 24000
    /\ ctxRate = 24000

(***************************************************************************)
(* C17: playAudioBuffer never starts a source on a suspended device.  A    *)
(* source that was started was started on a running device; a call that   *)
(* found the device suspended starts nothing until the resumption it       *)
(* awaits has succeeded; and when the resumption fails the call fails and  *)
(* no source is started.                                                   *)
(***************************************************************************)
PlayIds == 1..Len(plays)

C17_ResumeBeforeStart ==
  \A p \in PlayIds :
    /\ plays[p].source # "none" => plays[p].onState = "running"
    /\ plays[p].stage \in {"resuming", "resumeSettled"} =>
         (plays[p].suspendedAtCall /\ plays[p].source = "none")
    /\ plays[p].stage = "failed" =>
         (plays[p].suspendedAtCall /\ plays[p].source = "none")

C17_Witness ==
  \E p, q \in PlayIds :
    /\ plays[p].suspendedAtCall
    /\ plays[p].source = "playing"
    /\ plays[p].onState = "running"
    /\ plays[q].suspendedAtCall
    /\ plays[q].stage = "failed"

(***************************************************************************)
(* C18: playAudioBuffer neither queues nor cancels.  A call made on a      *)
(* running device starts its own source at once, whatever is sounding; a   *)
(* sounding source stops only by reaching its end, never because of        *)
(* another call; and the call is resolved from the moment its source has   *)
(* started, while the source is still sounding.                            *)
(***************************************************************************)
C18_State ==
  \A p \in PlayIds :
    /\ plays[p].source \in {"none", "playing", "ended"}
    /\ plays[p].stage = "started" <=> plays[p].source \in {"playing", "ended"}
    /\ ~ plays[p].suspendedAtCall => plays[p].source # "none"

C18_Step ==
  \A p \in PlayIds :
    (plays[p].source = "playing" /\ plays'[p].source # "playing") =>
      /\ plays'[p].source = "ended"
      /\ Len(plays') = Len(plays)
      /\ \A q \in PlayIds : q # p => plays'[q] = plays[q]

C18_NoQueueNoCancel == [](C18_State) /\ [][C18_Step]_vars

C18_Witness ==
  \E p, q \in PlayIds :
    /\ p < q
    /\ ~ plays[q].suspendedAtCall
    /\ plays[p].source = "playing" /\ plays[p].stage = "started"
    /\ plays[q].source = "playing" /\ plays[q].stage = "started"

(***************************************************************************)
(* C19: every in-flight synthesis request eventually settles, with a       *)
(* buffer or with a failure, given that the backend eventually answers.    *)
(* Nothing cancels it: while it is in flight its entry stays in the cache  *)
(* and its invocation stays issued; and no cache entry stays in flight     *)
(* forever.                                                                *)
(***************************************************************************)
InFlight(f) == f \in FetchIds /\ fetches[f].state = "pending"
HasSettled(f) == f \in FetchIds /\ fetches[f].state \in {"fulfilled", "rejected"}
KeyInFlight(k) == CacheHas(audioCache, k) /\ InFlight(audioCache[k])
AppKeys == {cacheKey(pr[1], pr[2]) : pr \in AppPairs}

C19_NotCancelled ==
  \A f \in FetchIds :
    fetches[f].state = "pending" =>
      /\ CacheHas(audioCache, fetches[f].key)
      /\ audioCache[fetches[f].key] = f
      /\ RequestsOf(f) # {}

C19_EventuallySettles ==
  /\ \A f \in 1..MaxCalls : InFlight(f) ~> HasSettled(f)
  /\ \A k \in AppKeys : KeyInFlight(k) ~> ~ KeyInFlight(k)
  /\ [](C19_NotCancelled)

C19_Witness ==
  \E f, g \in FetchIds :
    /\ fetches[f].state = "rejected"
    /\ fetches[g].state = "fulfilled"
    /\ ~ \E k \in AppKeys : KeyInFlight(k)
    /\ mq = <<>>

(***************************************************************************)
(* C20 as stated: on a miss the in-flight entry is in the cache before    *)
(* normalization and the backend invocation are started.                   *)
(***************************************************************************)
C20_RegisteredBeforeWork ==
  \A r \in 1..Len(requests) : requests[r].registered

(***************************************************************************)
(* C20 amended: on a miss the entry is registered in the synchronous run   *)
(* of the miss check, after normalization and the backend invocation have  *)
(* been started and before anything else runs: the step that issues the    *)
(* invocation leaves the cache holding the new in-flight entry under the   *)
(* key, so a call of the same task already finds it.                       *)
(***************************************************************************)
C20_State ==
  /\ \A r \in 1..Len(requests) : ~ requests[r].registered
  /\ \A c \in CallIds :
       (calls[c].found = "miss" /\ fetches[calls[c].fetch].state = "pending") =>
         /\ CacheHas(audioCache, KeyOf(c))
         /\ audioCache[KeyOf(c)] = calls[c].fetch

C20_Step ==
  (IsCallStep /\ ~ NoBackendCall) =>
    LET r == requests'[Len(requests')]
    IN  /\ Len(requests') = Len(requests) + 1
        /\ r.fetch = NewCall.fetch
        /\ ~ CacheHas(audioCache, fetches'[r.fetch].key)
        /\ CacheHas(audioCache', fetches'[r.fetch].key)
        /\ audioCache'[fetches'[r.fetch].key] = r.fetch
        /\ fetches'[r.fetch].state = "pending"

C20_RegisteredInSameRun == [](C20_State) /\ [][C20_Step]_vars

C20_Witness ==
  \E c, d \in CallIds :
    /\ c < d
    /\ calls[c].found = "miss"
    /\ calls[d].sameTask /\ calls[d].found = "pending"
    /\ calls[d].fetch = calls[c].fetch
    /\ \E r \in RequestsOf(calls[c].fetch) : ~ requests[r].registered

(***************************************************************************)
(* C21: the cache key is the voice, a colon and the text as the caller     *)
(* gave it, while the backend is invoked with the normalized text and the  *)
(* same voice.  Calls with the same (voice, text) use the same key, and a  *)
(* call that finds an entry finds one made for its own text; calls whose   *)
(* texts differ get separate entries and separate backend invocations,     *)
(* even when the texts sent to the backend are the same string.            *)
(***************************************************************************)
C21_KeyFromRawText ==
  /\ \A f \in FetchIds :
       /\ fetches[f].key = fetches[f].voice \o <<58>> \o fetches[f].source
       /\ \A r \in RequestsOf(f) :
            /\ requests[r].text = processedText(fetches[f].source)
            /\ requests[r].voice = fetches[f].voice
  /\ \A c \in CallIds :
       /\ fetches[calls[c].fetch].voice = calls[c].voice
       /\ fetches[calls[c].fetch].source = calls[c].text
  /\ \A c, d \in CallIds :
       calls[c].text # calls[d].text =>
         /\ calls[c].fetch # calls[d].fetch
         /\ RequestsOf(calls[c].fetch) # {}
         /\ RequestsOf(calls[d].fetch) # {}
         /\ RequestsOf(calls[c].fetch) \cap RequestsOf(calls[d].fetch) = {}

C21_Witness ==
  \E c, d, e \in CallIds :
    /\ c < d /\ d < e
    /\ calls[c].text = Surname /\ calls[d].text = Amami /\ calls[e].text = Surname
    /\ calls[e].fetch = calls[c].fetch
    /\ calls[d].fetch # calls[c].fetch
    /\ \A r \in 1..Len(requests) : requests[r].text = Amami
    /\ Len(requests) = 2

(***************************************************************************)
(* C22: eviction and retry never change what the holders of a failed       *)
(* entry observe.  A failed entry stays failed, with its error; every      *)
(* caller that was handed it and has observed the outcome has observed     *)
(* that failure, whatever the cache held under the key at that moment: no  *)
(* entry, or the in-flight or successful entry of a retry.                 *)
(***************************************************************************)
Observed(c) == calls[c].status \in {"buffer", "error"}

C22_State ==
  \A c \in CallIds :
    (Observed(c) /\ fetches[calls[c].fetch].state = "rejected") =>
      /\ calls[c].status = "error"
      /\ calls[c].error = fetches[calls[c].fetch].error
      /\ calls[c].atObserve \in {"absent", "pending", "fulfilled"}

C22_Step ==
  \A f \in FetchIds :
    fetches[f].state = "rejected" =>
      /\ fetches'[f].state = "rejected"
      /\ fetches'[f].error = fetches[f].error

C22_HoldersSeeFailure == [](C22_State) /\ [][C22_Step]_vars

C22_Witness ==
  \E c, d \in CallIds :
    /\ calls[c].fetch # calls[d].fetch
    /\ SamePair(c, d)
    /\ calls[c].status = "error"
    /\ calls[c].atObserve = "fulfilled"
    /\ fetches[calls[d].fetch].state = "fulfilled"
    /\ calls[d].status = "buffer"

(***************************************************************************)
(* C24: the failure handler of an entry removes only that entry.  When     *)
(* the handler of a failed request runs, the cache holds that request's    *)
(* entry under its key, and the step removes that key and nothing else;    *)
(* no other step removes a key.  So an entry that is in the cache is in    *)
(* flight, resolved, or failed with its own handler still to run.          *)
(***************************************************************************)
HandlerQueued(f) ==
  \E i \in 1..Len(mq) : mq[i].t = "catch" /\ mq[i].fetch = f

C24_State ==
  \A k \in DOMAIN audioCache :
    LET f == audioCache[k]
    IN  /\ fetches[f].key = k
        /\ fetches[f].state = "rejected" => HandlerQueued(f)

C24_Step ==
  /\ (mq # <<>> /\ Head(mq).t = "catch"
        /\ fetches[Head(mq).fetch].state = "rejected") =>
       LET f == Head(mq).fetch
       IN  /\ fetches[f].key \in DOMAIN audioCache
           /\ audioCache[fetches[f].key] = f
           /\ DOMAIN audioCache' = DOMAIN audioCache \ {fetches[f].key}
  /\ \A k \in DOMAIN audioCache :
       k \notin DOMAIN audioCache' =>
         /\ mq # <<>> /\ Head(mq).t = "catch"
         /\ Head(mq).fetch = audioCache[k]
         /\ fetches[audioCache[k]].state = "rejected"
  /\ \A k \in DOMAIN audioCache \cap DOMAIN audioCache' :
       audioCache'[k] = audioCache[k]

C24_EvictsOwnEntryOnly == [](C24_State) /\ [][C24_Step]_vars

C24_Witness ==
  \E f, g \in FetchIds :
    /\ f < g
    /\ fetches[f].key = fetches[g].key
    /\ fetches[f].state = "rejected"
    /\ fetches[g].state = "pending"
    /\ fetches[g].key \in DOMAIN audioCache
    /\ audioCache[fetches[g].key] = g
    /\ \E c \in CallIds : calls[c].fetch = f /\ calls[c].status = "none"

(***************************************************************************)
(* Vocabulary of C25: call d was made by the continuation of call c, which *)
(* had just observed a failure, for the same voice and text.               *)
(***************************************************************************)
RetryCalls ==
  {d \in CallIds : calls[d].retryOf # 0 /\ SamePair(d, calls[d].retryOf)}

\* the failed entry is out of the cache when its failure is observed, the
\* eviction handler is the first reaction of every entry, and a retry is
\* never handed the failed entry
C25_EvictedFirst ==
  /\ \A c \in CallIds :
       calls[c].status = "error" => calls[c].atObserve \notin {"own", "rejected"}
  /\ \A f \in FetchIds :
       /\ Len(fetches[f].reactions) >= 1
       /\ fetches[f].reactions[1].t = "catch"
  /\ \A d \in RetryCalls :
       /\ calls[d].fetch # calls[calls[d].retryOf].fetch
       /\ calls[d].found \in {"miss", "pending", "fulfilled"}

(***************************************************************************)
(* C25 as stated: a failed entry is removed from the cache before any      *)
(* caller observes the failure, and a caller that calls generateSpeech     *)
(* again as soon as it sees the failure never gets the failed entry back   *)
(* and always triggers a new backend invocation.                           *)
(***************************************************************************)
C25_RetryAlwaysInvokes ==
  /\ C25_EvictedFirst
  /\ \A d \in RetryCalls : calls[d].found = "miss"

(***************************************************************************)
(* C25 amended: a failed entry is removed from the cache before any        *)
(* caller observes the failure, so a caller that calls generateSpeech      *)
(* again as soon as it sees the failure never gets the failed entry back:  *)
(* it triggers a new backend invocation, unless another caller has         *)
(* retried first, and then it is handed the entry of that retry.           *)
(***************************************************************************)
C25_RetryNeverGetsFailedEntry ==
  /\ C25_EvictedFirst
  /\ \A d \in RetryCalls :
       \/ /\ calls[d].found = "miss"
          /\ \E r \in RequestsOf(calls[d].fetch) :
               requests[r].fetch > calls[calls[d].retryOf].fetch
       \/ /\ calls[d].found \in {"pending", "fulfilled"}
          /\ calls[d].fetch > calls[calls[d].retryOf].fetch
          /\ \E e \in CallIds :
               e < d /\ calls[e].fetch = calls[d].fetch /\ calls[e].found = "miss"

C25_Witness ==
  \E c, d \in CallIds :
    /\ d \in RetryCalls
    /\ calls[d].retryOf = c
    /\ calls[c].status = "error"
    /\ calls[c].atObserve = "absent"
    /\ calls[d].found = "miss"
    /\ fetches[calls[d].fetch].state = "fulfilled"


\* ---------------------------------------------------------------------
\* App: the notebook

serviceVars == <<pairs, responses, modes, budget, audioCache, sharedAudioContext,
                 devices, ctxState, ctxLog, ctxRate, fetches, requests, calls,
                 plays, mq, inTask, cont>>

\* the effect that runs once after App is mounted
LoadEffect ==
  /\ mq = <<>>
  /\ ~ loaded
  /\ loaded' = TRUE
  /\ notebook' = IF localStorage # NoItem /\ Parseable(localStorage)
                 THEN Parse(localStorage)
                 ELSE notebook
  /\ UNCHANGED <<localStorage, now, saves, serviceVars, viewVars>>

\* handleSaveToNotebook(item); t1 and t2 are the two readings of Date.now().
\* The save button of ResultView is disabled while the word is in the
\* notebook; the handler is modelled for every item it can be called with.
HandleSaveToNotebook(item, t1, t2) ==
  /\ mq = <<>>
  /\ loaded
  /\ saves.n < MaxSaves
  /\ now <= t1
  /\ t1 <= t2
  /\ IF HasWord(notebook, item.word)
     THEN /\ saves' = [n |-> saves.n + 1, word |-> item.word, outcome |-> "ignored"]
          /\ UNCHANGED <<notebook, localStorage, now>>
     ELSE LET noteItem == [word |-> item.word, definition |-> item.definition,
                           id |-> ToString(t1), timestamp |-> t2]
              newNotebook == <<noteItem>> \o notebook
          IN  /\ notebook' = newNotebook
              /\ localStorage' = SaveToStorage(newNotebook)
              /\ now' = t2
              /\ saves' = [n |-> saves.n + 1, word |-> item.word, outcome |-> "added"]
  /\ UNCHANGED <<loaded, serviceVars, viewVars>>

\* the page is loaded again: App starts from its initial state, what is
\* stored under 'tenma_notebook' stays
Reload ==
  /\ mq = <<>>
  /\ loaded
  /\ notebook' = <<>>
  /\ loaded' = FALSE
  /\ UNCHANGED <<localStorage, now, saves, serviceVars, viewVars>>

Notebook ==
  \/ LoadEffect
  \/ \E item \in Results, t1 \in Times, t2 \in Times : HandleSaveToNotebook(item, t1, t2)
  \/ Reload

\* nothing stored yet, or a stored string that does not parse
InitNote ==
  \E stored \in {NoItem, Corrupt} :
    InitStored({<<Kore, L_x>>}, {Audio}, {"prefetch"}, 0, stored)
SpecNote == InitNote /\ [][Notebook]_vars

\* ---------------------------------------------------------------------
\* C26  the notebook holds a word once and is persisted whole

NoDup(items) ==
  \A i, j \in 1..Len(items) : i # j => items[i].word # items[j].word
StoredItems ==
  IF localStorage # NoItem /\ Parseable(localStorage) THEN Parse(localStorage)
  ELSE <<>>

C26_State ==
  /\ NoDup(notebook)
  /\ NoDup(StoredItems)
  /\ (loaded /\ notebook # <<>>) => localStorage = Stringify(notebook)

C26_Step ==
  LET called == saves'.n = saves.n + 1
      word == saves'.word
  IN  /\ (called /\ HasWord(notebook, word)) =>
           UNCHANGED <<notebook, localStorage>>
      /\ (called /\ ~ HasWord(notebook, word)) =>
           /\ Len(notebook') = Len(notebook) + 1
           /\ notebook'[1].word = word
           /\ \A i \in 1..Len(notebook) : notebook'[i + 1] = notebook[i]
           /\ localStorage' = Stringify(notebook')
           /\ Parse(localStorage') = notebook'
           /\ \A i \in 1..Len(StoredItems) :
                \E j \in 1..Len(StoredItems') : StoredItems'[j] = StoredItems[i]

\* C26: after any sequence of handleSaveToNotebook calls no two notebook
\* items have the same word; a call with a word that is already in the
\* notebook changes neither the notebook nor the list stored under
\* 'tenma_notebook'; after an effective save the stored list parses to the
\* notebook, which is the new item followed by every item held before, and
\* every item stored before is still stored.
C26_NoDuplicateAllPersisted == [](C26_State) /\ [][C26_Step]_vars

\* the notebook holds two items, the newer first, the stored list is its
\* serialization, and the last call, with a word already held, was ignored
C26_Witness ==
  /\ loaded
  /\ saves.outcome = "ignored"
  /\ HasWord(notebook, saves.word)
  /\ Len(notebook) = 2
  /\ notebook[1].timestamp > notebook[2].timestamp
  /\ localStorage = Stringify(notebook)

\* ---------------------------------------------------------------------
\* C23  ResultView: the playingAudio flag

\* the handlePlayAudio invocations, and those between setPlayingAudio(id)
\* and the end of their finally block
UiCalls == {c \in 1..Len(calls) : calls[c].mode = "ui"}
Invoking == {c \in UiCalls : ~ calls[c].ended}
IgnoredClicks == (MaxCalls - 1) - budget - Len(calls)

\* C23 as stated: at any time at most one handlePlayAudio invocation is
\* between setting playingAudio and its finally block.  Refuted: an
\* invocation of a ResultView that was unmounted (Back) is still in flight
\* when the next ResultView starts its own.
C23_AtMostOneInvocation == Cardinality(Invoking) <= 1

C23_State ==
  /\ \A i \in 1..instance :
       Cardinality({c \in Invoking : calls[c].instance = i}) <= 1
  /\ playingAudio # 0 =>
       /\ playingAudio \in Invoking
       /\ calls[playingAudio].instance = instance
       /\ rendered = playingAudio
  /\ \A c \in Invoking : calls[c].instance = instance => playingAudio = c

C23_Step ==
  /\ (playingAudio # 0 /\ instance' = instance) =>
       /\ UiCalls' = UiCalls
       /\ (budget' < budget /\ Len(calls') = Len(calls)) =>
            UNCHANGED <<audioCache, fetches, requests, calls, plays, mq>>
  /\ \A c \in Invoking :
       (calls'[c].ended /\ calls[c].instance = instance') => playingAudio' = 0

\* C23 (amended): within one mounted ResultView at most one handlePlayAudio
\* invocation is between setting playingAudio and its finally block, and
\* playingAudio names it; a play request that arrives while playingAudio
\* is set starts no synthesis and no playback; when an invocation of the
\* mounted ResultView ends, after a success or after a failure,
\* playingAudio is null.
C23_SerializedPerInstance == [](C23_State) /\ [][C23_Step]_vars

\* a play request was ignored, and the invocation that held the flag has
\* ended with a failure and left the flag null
C23_Witness ==
  /\ IgnoredClicks > 0
  /\ playingAudio = 0
  /\ instance # 0
  /\ \E c \in UiCalls :
       calls[c].ended /\ calls[c].status = "error" /\ calls[c].instance = instance
====
